---------------------------- MODULE Spec2Model ----------------------------
(***************************************************************************)
(* A model of yawast/scanner/plugins/http/response_scanner.py:             *)
(*   check_response        the dispatcher ("analyze")                      *)
(*   _check_cache_headers  the Cache-Header Inspector                      *)
(*   _check_charset        the Charset Inspector                           *)
(* Strings are sequences of one-character strings, so that str.lower() and *)
(* the substring operator `in` are computed, not assumed.                  *)
(***************************************************************************)
EXTENDS Integers, Sequences, FiniteSets, TLC

VARIABLES
    stack,      \* per thread: the call stack, bottom first
    status,     \* per thread: "idle", "running", "returned" or "raised"
    ret,        \* per thread: what the top-level check_response returned
    probe_res,  \* per thread: the response the server gives to the rails probe
    ires,       \* the response handed to an inspector called on its own
    iout        \* what that inspector returned

vars == <<stack, status, ret, probe_res, ires, iout>>

(***************************************************************************)
(* Bounds of the model.                                                    *)
(***************************************************************************)
\* the longest header value, in tokens, that Init draws
MaxTokens == 2
\* the deepest probe -> check_response -> probe nesting the model follows
MaxDepth == 3

(***************************************************************************)
(* Strings.                                                                *)
(***************************************************************************)
\* the characters of each token a header value is built from
TokenChars(tok) ==
    CASE tok = "public"        -> <<"p", "u", "b", "l", "i", "c">>
      [] tok = "no-cache"      -> <<"n", "o", "-", "c", "a", "c", "h", "e">>
      [] tok = "No-Cache"      -> <<"N", "o", "-", "C", "a", "c", "h", "e">>
      [] tok = "no-store"      -> <<"n", "o", "-", "s", "t", "o", "r", "e">>
      [] tok = "private"       -> <<"p", "r", "i", "v", "a", "t", "e">>
      [] tok = "no-"           -> <<"n", "o", "-">>
      [] tok = "cache"         -> <<"c", "a", "c", "h", "e">>
      [] tok = "max-age=60"    -> <<"m", "a", "x", "-", "a", "g", "e", "=", "6", "0">>
      [] tok = ", "            -> <<",", " ">>
      [] tok = "text/html"     -> <<"t", "e", "x", "t", "/", "h", "t", "m", "l">>
      [] tok = "Text/HTML"     -> <<"T", "e", "x", "t", "/", "H", "T", "M", "L">>
      [] tok = "; "            -> <<";", " ">>
      [] tok = "charset=utf-8" -> <<"c", "h", "a", "r", "s", "e", "t", "=", "u", "t", "f", "-", "8">>
      [] tok = "Charset=UTF-8" -> <<"C", "h", "a", "r", "s", "e", "t", "=", "U", "T", "F", "-", "8">>
      [] tok = "image/png"     -> <<"i", "m", "a", "g", "e", "/", "p", "n", "g">>
      [] tok = "char"          -> <<"c", "h", "a", "r">>
      [] tok = "set"           -> <<"s", "e", "t">>

\* the header value made of a sequence of tokens
RECURSIVE Chars(_)
Chars(v) == IF v = <<>> THEN <<>> ELSE TokenChars(Head(v)) \o Chars(Tail(v))

\* str(x) of a header value, which is a string already
str(x) == x

\* one character of str.lower()
LowerChar(c) ==
    CASE c = "A" -> "a" [] c = "B" -> "b" [] c = "C" -> "c" [] c = "D" -> "d"
      [] c = "E" -> "e" [] c = "F" -> "f" [] c = "G" -> "g" [] c = "H" -> "h"
      [] c = "I" -> "i" [] c = "J" -> "j" [] c = "K" -> "k" [] c = "L" -> "l"
      [] c = "M" -> "m" [] c = "N" -> "n" [] c = "O" -> "o" [] c = "P" -> "p"
      [] c = "Q" -> "q" [] c = "R" -> "r" [] c = "S" -> "s" [] c = "T" -> "t"
      [] c = "U" -> "u" [] c = "V" -> "v" [] c = "W" -> "w" [] c = "X" -> "x"
      [] c = "Y" -> "y" [] c = "Z" -> "z" [] OTHER -> c

\* str.lower()
lower(s) == [i \in 1..Len(s) |-> LowerChar(s[i])]

\* Python's `sub in s` on strings
Contains(sub, s) ==
    {i \in 1..(Len(s) - Len(sub) + 1) : SubSeq(s, i, i + Len(sub) - 1) = sub} # {}

\* the string literals the inspectors and the guard search for
S_public   == <<"p", "u", "b", "l", "i", "c">>
S_no_cache == <<"n", "o", "-", "c", "a", "c", "h", "e">>
S_no_store == <<"n", "o", "-", "s", "t", "o", "r", "e">>
S_private  == <<"p", "r", "i", "v", "a", "t", "e">>
S_charset  == <<"c", "h", "a", "r", "s", "e", "t">>
S_text_html == <<"t", "e", "x", "t", "/", "h", "t", "m", "l">>
S_check_cve == <<"c", "h", "e", "c", "k", "_", "c", "v", "e", "_", "2", "0", "1", "9", "_", "5", "4", "1", "8">>

(***************************************************************************)
(* Responses.  A response is None or a record: its headers (a function     *)
(* whose domain is the set of headers present, each value a string), the   *)
(* length of its content, and what is_text says of it.                     *)
(***************************************************************************)
None == [none |-> TRUE]

\* all sequences of at most n elements of S
RECURSIVE SeqsUpTo(_, _)
SeqsUpTo(S, n) ==
    IF n = 0 THEN {<<>>}
    ELSE LET shorter == SeqsUpTo(S, n - 1)
         IN  shorter \cup {Append(s, x) : s \in shorter, x \in S}

\* a header that may be absent: <<>> or <<value>>
Optional(values) == {<<>>} \cup {<<v>> : v \in values}

\* name: value, the value given as a sequence of tokens
Header(name, opt) == IF opt = <<>> THEN <<>> ELSE name :> Chars(opt[1])

Response(cc, expires, pragma, ctype, content_len, text) ==
    [headers |-> Header("Cache-Control", cc) @@ Header("Expires", expires)
                 @@ Header("Pragma", pragma) @@ Header("Content-Type", ctype),
     content_len |-> content_len,
     text |-> text]

\* Cache-Control: public, no-cache, no-store, private
FullCacheControl ==
    <<"public", ", ", "no-cache", ", ", "no-store", ", ", "private">>

CacheControlValues ==
    SeqsUpTo({"public", "no-cache", "No-Cache", "no-store", "private",
              "no-", "cache", "max-age=60"}, MaxTokens)
    \cup {FullCacheControl}

PragmaValues == SeqsUpTo({"no-cache", "No-Cache", "no-", "cache"}, MaxTokens)

ContentTypeValues ==
    SeqsUpTo({"text/html", "Text/HTML", "; ", "charset=utf-8", "Charset=UTF-8",
              "image/png", "char", "set"}, MaxTokens)

(***************************************************************************)
(* _check_cache_headers (lines 86-158).  A finding is modelled by its      *)
(* Vulnerabilities member.                                                 *)
(***************************************************************************)
\* a faulty variant: the "public" test compares the whole value instead of searching it
CacheControlPublicEq(res) ==
    IF lower(str(res.headers["Cache-Control"])) = S_public
    THEN <<"HTTP_HEADER_CACHE_CONTROL_PUBLIC">> ELSE <<>>

\* lines 91-98
CacheControlPublic(res) ==
    IF Contains(S_public, lower(str(res.headers["Cache-Control"])))
    THEN <<"HTTP_HEADER_CACHE_CONTROL_PUBLIC">> ELSE <<>>

\* lines 100-107
CacheControlNoCache(res) ==
    IF ~Contains(S_no_cache, lower(str(res.headers["Cache-Control"])))
    THEN <<"HTTP_HEADER_CACHE_CONTROL_NO_CACHE_MISSING">> ELSE <<>>

\* lines 109-116
CacheControlNoStore(res) ==
    IF ~Contains(S_no_store, lower(str(res.headers["Cache-Control"])))
    THEN <<"HTTP_HEADER_CACHE_CONTROL_NO_STORE_MISSING">> ELSE <<>>

\* lines 118-125
CacheControlPrivate(res) ==
    IF ~Contains(S_private, lower(str(res.headers["Cache-Control"])))
    THEN <<"HTTP_HEADER_CACHE_CONTROL_PRIVATE_MISSING">> ELSE <<>>

\* a faulty variant: the header-missing finding is appended after the if/else, not in
\* the else branch
CacheControlAlwaysMissing(res) ==
    (IF "Cache-Control" \in DOMAIN res.headers
     THEN CacheControlPublic(res) \o CacheControlNoCache(res)
          \o CacheControlNoStore(res) \o CacheControlPrivate(res)
     ELSE <<>>)
    \o <<"HTTP_HEADER_CACHE_CONTROL_MISSING">>

\* lines 89-134
CacheControl(res) ==
    IF "Cache-Control" \in DOMAIN res.headers
    THEN CacheControlPublic(res) \o CacheControlNoCache(res)
         \o CacheControlNoStore(res) \o CacheControlPrivate(res)
    ELSE <<"HTTP_HEADER_CACHE_CONTROL_MISSING">>

\* lines 136-147
Expires(res) ==
    IF "Expires" \notin DOMAIN res.headers
    THEN <<"HTTP_HEADER_EXPIRES_MISSING">> ELSE <<>>

\* a faulty variant: the Pragma value is lowercased like the Cache-Control value
PragmaLowered(res) ==
    IF "Pragma" \notin DOMAIN res.headers
       \/ ~Contains(S_no_cache, lower(str(res.headers["Pragma"])))
    THEN <<"HTTP_HEADER_PRAGMA_NO_CACHE_MISSING">> ELSE <<>>

\* lines 149-156
Pragma(res) ==
    IF "Pragma" \notin DOMAIN res.headers
       \/ ~Contains(S_no_cache, str(res.headers["Pragma"]))
    THEN <<"HTTP_HEADER_PRAGMA_NO_CACHE_MISSING">> ELSE <<>>

\* lines 86-158
_check_cache_headers(res) == CacheControl(res) \o Expires(res) \o Pragma(res)

(***************************************************************************)
(* _check_charset (lines 52-83).                                           *)
(***************************************************************************)
\* a faulty variant: the Content-Type value is searched without lowercasing it
ContentTypeRaw(res) == str(res.headers["Content-Type"])

\* line 60
ContentType(res) == lower(str(res.headers["Content-Type"]))

\* lines 52-83
_check_charset(res) ==
    IF res.content_len = 0 THEN <<>>
    ELSE IF "Content-Type" \in DOMAIN res.headers
         THEN IF ~Contains(S_charset, ContentType(res))
                 /\ Contains(S_text_html, ContentType(res))
              THEN <<"HTTP_HEADER_CONTENT_TYPE_NO_CHARSET">>
              ELSE <<>>
         ELSE <<"HTTP_HEADER_CONTENT_TYPE_MISSING">>

(***************************************************************************)
(* The inspectors called on their own, on every response of the bounds.    *)
(***************************************************************************)
Threads == {"t1", "t2"}

NotCalled == [fn |-> "none", results |-> <<>>]

Idle ==
    /\ stack = [t \in Threads |-> <<>>]
    /\ status = [t \in Threads |-> "idle"]
    /\ ret = [t \in Threads |-> <<>>]
    /\ probe_res = [t \in Threads |-> None]

CacheResponses ==
    {Response(cc, ex, pr, <<>>, 1, TRUE) :
        cc \in Optional(CacheControlValues),
        ex \in Optional({<<"max-age=60">>}),
        pr \in Optional(PragmaValues)}

CharsetResponses ==
    {Response(<<>>, <<>>, <<>>, ct, n, TRUE) :
        ct \in Optional(ContentTypeValues), n \in {0, 1}}

InitCache ==
    /\ Idle
    /\ ires \in CacheResponses
    /\ iout = NotCalled

InitCharset ==
    /\ Idle
    /\ ires \in CharsetResponses
    /\ iout = NotCalled

InspectCache ==
    /\ iout = NotCalled
    /\ iout' = [fn |-> "_check_cache_headers", results |-> _check_cache_headers(ires)]
    /\ UNCHANGED <<stack, status, ret, probe_res, ires>>

InspectCharset ==
    /\ iout = NotCalled
    /\ iout' = [fn |-> "_check_charset", results |-> _check_charset(ires)]
    /\ UNCHANGED <<stack, status, ret, probe_res, ires>>

SpecCache == InitCache /\ [][InspectCache]_vars

SpecCharset == InitCharset /\ [][InspectCharset]_vars


(***************************************************************************)
(* check_response (lines 15-49).  Every thread has its own call stack, as  *)
(* inspect.stack() reads the stack of the calling thread.  A frame is      *)
(*   [fn, pc, res, soup, results, log]                                     *)
(* where pc is the source line the frame is at and log is the sequence of  *)
(* calls the frame has made so far, each with what it returned.            *)
(***************************************************************************)
\* the name of each function that appears on a stack
FunctionName(fn) ==
    CASE fn = "scan"                -> <<"s", "c", "a", "n">>
      [] fn = "check_url"           -> <<"c", "h", "e", "c", "k", "_", "u", "r", "l">>
      [] fn = "check_response"      -> <<"c", "h", "e", "c", "k", "_", "r", "e", "s", "p", "o", "n", "s", "e">>
      [] fn = "check_cve_2019_5418" -> <<"c", "h", "e", "c", "k", "_", "c", "v", "e", "_", "2", "0", "1", "9", "_", "5", "4", "1", "8">>
      [] fn = "check_cve_2019_5419" -> <<"c", "h", "e", "c", "k", "_", "c", "v", "e", "_", "2", "0", "1", "9", "_", "5", "4", "1", "9">>
      [] fn = "test_check_cve_2019_5418_guard" ->
            <<"t", "e", "s", "t", "_", "c", "h", "e", "c", "k", "_", "c", "v", "e", "_", "2", "0", "1", "9", "_", "5", "4", "1", "8", "_", "g", "u", "a", "r", "d">>

Frame(fn, pc, res, soup) ==
    [fn |-> fn, pc |-> pc, res |-> res, soup |-> soup,
     results |-> <<>>, log |-> <<>>]

\* a function of the code that calls check_response, or is further up
CallerFrame(fn) == Frame(fn, "caller", None, FALSE)

Top(t) == stack[t][Len(stack[t])]

\* inspect.stack()[1]: the frame that called the running one
Caller(t) == stack[t][Len(stack[t]) - 1]

Pop(s) == SubSeq(s, 1, Len(s) - 1)

ReplaceTop(s, f) == [s EXCEPT ![Len(s)] = f]

InAnalyze(t, pcs) ==
    /\ status[t] = "running"
    /\ Top(t).fn = "check_response"
    /\ Top(t).pc \in pcs

InProbe(t, pc) ==
    /\ status[t] = "running"
    /\ Top(t).fn = "check_cve_2019_5418"
    /\ Top(t).pc = pc

\* the frame after a call that returned the findings f and continues at pc
\* a faulty variant: the findings of a call are put in front of the earlier ones
CalledPrepending(frame, callee, f, pc) ==
    [frame EXCEPT !.results = f \o @,
                  !.log = Append(@, [fn |-> callee, ret |-> f]),
                  !.pc = pc]

\* results += callee(...)
Called(frame, callee, f, pc) ==
    [frame EXCEPT !.results = @ \o f,
                  !.log = Append(@, [fn |-> callee, ret |-> f]),
                  !.pc = pc]

\* what a collaborator may return: no finding, or a finding of its own.
\* With det, every collaborator finds something.
Findings(callee, det) == IF det THEN {<<callee>>} ELSE {<<>>, <<callee>>}

\* the collaborator called at each line, and the line after it
CollaboratorAt(pc) ==
    CASE pc = "l33" -> "retirejs.get_results"
      [] pc = "l34" -> "apache_tomcat.get_version"
      [] pc = "l35" -> "error_checker.check_response"
      [] pc = "l39" -> "http_basic.get_header_issues"
      [] pc = "l40" -> "http_basic.get_cookie_issues"

LineAfter(pc) ==
    CASE pc = "l33" -> "l34"
      [] pc = "l34" -> "l35"
      [] pc = "l35" -> "l37"
      [] pc = "l39" -> "l40"
      [] pc = "l40" -> "l44"

\* the number of probe frames on a stack
RECURSIVE ProbeFrames(_)
ProbeFrames(s) ==
    IF s = <<>> THEN 0
    ELSE (IF Head(s).fn = "check_cve_2019_5418" /\ Head(s).pc # "caller"
          THEN 1 ELSE 0) + ProbeFrames(Tail(s))

\* lines 19-20
CheckNone(t) ==
    /\ InAnalyze(t, {"l19"})
    /\ stack' = [stack EXCEPT ![t] = ReplaceTop(@,
            [Top(t) EXCEPT !.pc = IF Top(t).res = None THEN "l20" ELSE "l24"])]
    /\ UNCHANGED <<status, ret, probe_res, ires, iout>>

\* line 24
BuildRaw(t) ==
    /\ InAnalyze(t, {"l24"})
    /\ stack' = [stack EXCEPT ![t] = ReplaceTop(@,
            Called(Top(t), "network.http_build_raw_response", <<>>, "l26"))]
    /\ UNCHANGED <<status, ret, probe_res, ires, iout>>

\* a faulty variant: the markup-dependent checks run whatever is_text says
TextBranchAlways(res) == "l29"

\* line 26
TextBranch(res) == IF res.text THEN "l29" ELSE "l39"

IsText(t) ==
    /\ InAnalyze(t, {"l26"})
    /\ stack' = [stack EXCEPT ![t] = ReplaceTop(@,
            Called(Top(t), "http_utils.is_text", <<>>, TextBranch(Top(t).res)))]
    /\ UNCHANGED <<status, ret, probe_res, ires, iout>>

\* lines 29-30
Soup(t) ==
    /\ InAnalyze(t, {"l29"})
    /\ stack' = [stack EXCEPT ![t] = ReplaceTop(@,
            IF Top(t).soup
            THEN [Top(t) EXCEPT !.pc = "l33"]
            ELSE [Called(Top(t), "BeautifulSoup", <<>>, "l33") EXCEPT !.soup = TRUE])]
    /\ UNCHANGED <<status, ret, probe_res, ires, iout>>

\* lines 33-35 and 39-40
Collaborator(t, det) ==
    /\ InAnalyze(t, {"l33", "l34", "l35", "l39", "l40"})
    /\ \E f \in Findings(CollaboratorAt(Top(t).pc), det) :
          stack' = [stack EXCEPT ![t] = ReplaceTop(@,
              Called(Top(t), CollaboratorAt(Top(t).pc), f, LineAfter(Top(t).pc)))]
    /\ UNCHANGED <<status, ret, probe_res, ires, iout>>

\* line 37
CacheHeaders(t) ==
    /\ InAnalyze(t, {"l37"})
    /\ stack' = [stack EXCEPT ![t] = ReplaceTop(@,
            Called(Top(t), "_check_cache_headers",
                   _check_cache_headers(Top(t).res), "l39"))]
    /\ UNCHANGED <<status, ret, probe_res, ires, iout>>

\* a faulty variant: no guard, the probe is always called
NeverReentrant(t) == FALSE

\* a faulty variant: the guard searches the whole stack for the probe
ReentrantAnywhere(t) ==
    {i \in 1..(Len(stack[t]) - 1) :
        Contains(S_check_cve, FunctionName(stack[t][i].fn))} # {}

\* a faulty variant: the guard is a flag shared by all threads, set while a probe runs
ReentrantShared(t) ==
    {u \in Threads : ProbeFrames(stack[u]) > 0} # {}

\* line 44: "check_cve_2019_5418" in inspect.stack()[1].function
Reentrant(t) == Contains(S_check_cve, FunctionName(Caller(t).fn))

Guard(t) ==
    /\ InAnalyze(t, {"l44"})
    /\ stack' = [stack EXCEPT ![t] = ReplaceTop(@,
            [Top(t) EXCEPT !.pc = IF ~Reentrant(t) THEN "l45" ELSE "l47"])]
    /\ UNCHANGED <<status, ret, probe_res, ires, iout>>

\* line 45, the call
CallProbe(t) ==
    /\ InAnalyze(t, {"l45"})
    /\ ProbeFrames(stack[t]) < MaxDepth
    /\ stack' = [stack EXCEPT ![t] =
            Append(@, Frame("check_cve_2019_5418", "request", None, FALSE))]
    /\ UNCHANGED <<status, ret, probe_res, ires, iout>>

\* line 47
Charset(t) ==
    /\ InAnalyze(t, {"l47"})
    /\ stack' = [stack EXCEPT ![t] = ReplaceTop(@,
            Called(Top(t), "_check_charset", _check_charset(Top(t).res), "l49"))]
    /\ UNCHANGED <<status, ret, probe_res, ires, iout>>

\* lines 20 and 49: to the probe when it made the call, else to the caller
Return(t) ==
    /\ InAnalyze(t, {"l20", "l49"})
    /\ IF Caller(t).pc = "wait"
       THEN /\ stack' = [stack EXCEPT ![t] = ReplaceTop(Pop(@),
                   [Caller(t) EXCEPT !.results = @ \o Top(t).results,
                                     !.pc = "return"])]
            /\ UNCHANGED <<status, ret>>
       ELSE /\ stack' = [stack EXCEPT ![t] = Pop(@)]
            /\ status' = [status EXCEPT ![t] = "returned"]
            /\ ret' = [ret EXCEPT ![t] = Top(t).results]
    /\ UNCHANGED <<probe_res, ires, iout>>

\* A call of lines 24-40 raises.  check_response has no handler, so the
\* exception leaves it; the probe catches what its own call raises and
\* returns no finding; any other caller gets the exception.
Raise(t) ==
    /\ InAnalyze(t, {"l24", "l26", "l33", "l34", "l35", "l39", "l40"})
    /\ IF Caller(t).pc = "wait"
       THEN /\ stack' = [stack EXCEPT ![t] = ReplaceTop(Pop(@),
                   [Caller(t) EXCEPT !.results = <<>>, !.pc = "return"])]
            /\ UNCHANGED status
       ELSE /\ stack' = [stack EXCEPT ![t] = Pop(@)]
            /\ status' = [status EXCEPT ![t] = "raised"]
    /\ UNCHANGED <<ret, probe_res, ires, iout>>

(***************************************************************************)
(* rails.check_cve_2019_5418: it sends its own request and calls           *)
(* check_response on the response it gets.                                 *)
(***************************************************************************)
\* the probe's request; it may return without checking a response
ProbeRequest(t, det) ==
    /\ InProbe(t, "request")
    /\ \E f \in Findings("rails.check_cve_2019_5418", det) :
          \/ stack' = [stack EXCEPT ![t] = ReplaceTop(@,
                 [Top(t) EXCEPT !.results = f, !.pc = "call"])]
          \/ stack' = [stack EXCEPT ![t] = ReplaceTop(@,
                 [Top(t) EXCEPT !.results = <<>>, !.pc = "return"])]
    /\ UNCHANGED <<status, ret, probe_res, ires, iout>>

\* results += response_scanner.check_response(url, res)
ProbeCallsAnalyze(t) ==
    /\ InProbe(t, "call")
    /\ stack' = [stack EXCEPT ![t] =
            Append(ReplaceTop(@, [Top(t) EXCEPT !.pc = "wait"]),
                   Frame("check_response", "l19", probe_res[t], FALSE))]
    /\ UNCHANGED <<status, ret, probe_res, ires, iout>>

\* the probe returns to line 45 of its caller
ProbeReturn(t) ==
    /\ InProbe(t, "return")
    /\ stack' = [stack EXCEPT ![t] = ReplaceTop(Pop(@),
            Called(Caller(t), "rails.check_cve_2019_5418", Top(t).results, "l47"))]
    /\ UNCHANGED <<status, ret, probe_res, ires, iout>>

(***************************************************************************)
(* The calls the model starts with.                                        *)
(***************************************************************************)
\* text/html without a charset and without any cache header
HtmlResponse ==
    Response(<<>>, <<>>, <<>>, <<<<"text/html">>>>, 1, TRUE)

\* text/html with a charset and every cache header
CachedResponse ==
    Response(<<FullCacheControl>>, <<<<"max-age=60">>>>, <<<<"no-cache">>>>,
             <<<<"text/html", "; ", "charset=utf-8">>>>, 1, TRUE)

ImageResponse ==
    Response(<<>>, <<>>, <<>>, <<<<"image/png">>>>, 1, FALSE)

\* a body that is not text and has no Content-Type
UntypedResponse == Response(<<>>, <<>>, <<>>, <<>>, 1, FALSE)

\* the responses a caller hands to check_response
Responses == {HtmlResponse, CachedResponse, ImageResponse, UntypedResponse}

\* the responses the server gives to the probe's request
ProbeResponses == {HtmlResponse, ImageResponse}

\* the functions under a top-level check_response, bottom first
CallChains ==
    { <<"scan">>,
      <<"scan", "check_cve_2019_5419">>,
      <<"scan", "test_check_cve_2019_5418_guard">>,
      <<"check_cve_2019_5418", "check_url">> }

\* the stack of a thread in which chain has called check_response(url, res, soup)
StartStack(chain, res, soup) ==
    [i \in 1..Len(chain) |-> CallerFrame(chain[i])]
    \o <<Frame("check_response", "l19", res, soup)>>

\* a caller passes markup only with a response that is text
Calls ==
    {c \in [chain : CallChains, res : Responses \cup {None}, soup : BOOLEAN,
            probe_res : ProbeResponses \cup {None}] :
        c.soup => (c.res # None /\ c.res.text)}

\* one call chain: a top-level call in thread t1
Init ==
    /\ ires = None
    /\ iout = NotCalled
    /\ \E c \in Calls :
          /\ stack = [t \in Threads |->
                IF t = "t1" THEN StartStack(c.chain, c.res, c.soup) ELSE <<>>]
          /\ probe_res = [t \in Threads |-> IF t = "t1" THEN c.probe_res ELSE None]
    /\ status = [t \in Threads |-> IF t = "t1" THEN "running" ELSE "idle"]
    /\ ret = [t \in Threads |-> <<>>]

Step(t, det) ==
    \/ CheckNone(t)
    \/ BuildRaw(t)
    \/ IsText(t)
    \/ Soup(t)
    \/ Collaborator(t, det)
    \/ CacheHeaders(t)
    \/ Guard(t)
    \/ CallProbe(t)
    \/ Charset(t)
    \/ Return(t)
    \/ Raise(t)
    \/ ProbeRequest(t, det)
    \/ ProbeCallsAnalyze(t)
    \/ ProbeReturn(t)

Next == \E t \in Threads : Step(t, FALSE)

Spec == Init /\ [][Next]_vars

\* the same steps with every collaborator returning a finding: what a
\* collaborator returns decides no branch of check_response
NextDet == \E t \in Threads : Step(t, TRUE)

\* one call chain, and a call that can take a step takes one: check_response
\* and the probe are synchronous code
FairSpec == Init /\ [][NextDet]_vars /\ WF_vars(NextDet)

\* two top-level calls on different responses, each in its own thread
ConcurrentCalls ==
    [chain : {<<"scan">>}, res : {HtmlResponse, UntypedResponse}, soup : {FALSE},
     probe_res : {HtmlResponse, ImageResponse, None}]

InitConc ==
    /\ ires = None
    /\ iout = NotCalled
    /\ \E c \in [Threads -> ConcurrentCalls] :
          /\ c["t1"].res # c["t2"].res
          /\ stack = [t \in Threads |-> StartStack(c[t].chain, c[t].res, c[t].soup)]
          /\ probe_res = [t \in Threads |-> c[t].probe_res]
    /\ status = [t \in Threads |-> "running"]
    /\ ret = [t \in Threads |-> <<>>]

SpecConc == InitConc /\ [][NextDet]_vars

(***************************************************************************)
(* What the claims speak of.                                               *)
(***************************************************************************)
\* the number of calls of callee in a frame's log
Count(log, callee) == Cardinality({i \in DOMAIN log : log[i].fn = callee})

\* the number of findings of a kind in a result
Kinds(results, kind) == Cardinality({i \in DOMAIN results : results[i] = kind})

\* the findings of the given kinds, in their order
RECURSIVE Only(_, _)
Only(results, kinds) ==
    IF results = <<>> THEN <<>>
    ELSE (IF Head(results) \in kinds THEN <<Head(results)>> ELSE <<>>)
         \o Only(Tail(results), kinds)

\* the results of a log's calls, one after the other
RECURSIVE Concatenated(_)
Concatenated(log) ==
    IF log = <<>> THEN <<>> ELSE Head(log).ret \o Concatenated(Tail(log))

\* the calls of a log that return findings, in their order
RECURSIVE Checks(_)
Checks(log) ==
    IF log = <<>> THEN <<>>
    ELSE (IF Head(log).fn \in {"network.http_build_raw_response",
                               "http_utils.is_text", "BeautifulSoup"}
          THEN <<>> ELSE <<Head(log).fn>>)
         \o Checks(Tail(log))

\* the positions of the check_response frames of a thread's stack
AnalyzeFrames(t) ==
    {i \in DOMAIN stack[t] :
        stack[t][i].fn = "check_response" /\ stack[t][i].pc # "caller"}

\* the function that called the frame at position i is named like the probe
CalledByProbe(t, i) ==
    LET name == FunctionName(stack[t][i - 1].fn)
    IN  \E k \in 1..(Len(name) - 18) : SubSeq(name, k, k + 18) = S_check_cve

\* the frame at position i is a call the probe made
Nested(t, i) == stack[t][i - 1].pc = "wait"

CacheControlKinds ==
    {"HTTP_HEADER_CACHE_CONTROL_PUBLIC",
     "HTTP_HEADER_CACHE_CONTROL_NO_CACHE_MISSING",
     "HTTP_HEADER_CACHE_CONTROL_NO_STORE_MISSING",
     "HTTP_HEADER_CACHE_CONTROL_PRIVATE_MISSING",
     "HTTP_HEADER_CACHE_CONTROL_MISSING"}

MarkupChecks ==
    {"retirejs.get_results", "apache_tomcat.get_version",
     "error_checker.check_response", "_check_cache_headers"}

CacheCalled == iout.fn = "_check_cache_headers"

CharsetCalled == iout.fn = "_check_charset"

Has(res, name) == name \in DOMAIN res.headers

\* the response has the header with exactly this value
HasValue(res, name, tokens) == Has(res, name) /\ res.headers[name] = Chars(tokens)

(***************************************************************************)
(* C1.  A check_response call made by the probe never calls the probe: it  *)
(* is never at line 45 and its log holds no probe call.  So there is at    *)
(* most one probe frame above a top-level call, and the top-level call     *)
(* ends: it returns, or it is left by an exception of lines 24-40 (C3).    *)
(***************************************************************************)
C1_NestedSkipsProbe ==
    \A t \in Threads :
        /\ ProbeFrames(stack[t]) <= 1
        /\ \A i \in AnalyzeFrames(t) :
              Nested(t, i) =>
                  /\ stack[t][i].pc # "l45"
                  /\ Count(stack[t][i].log, "rails.check_cve_2019_5418") = 0

C2_TextGate ==
    \A t \in Threads : \A i \in AnalyzeFrames(t) :
        LET f == stack[t][i]
        IN  f.res # None =>
              /\ ~f.res.text =>
                    /\ \A c \in MarkupChecks \cup {"BeautifulSoup"} : Count(f.log, c) = 0
                    /\ f.soup = FALSE
                    /\ f.pc = "l49" =>
                          /\ Count(f.log, "http_basic.get_header_issues") = 1
                          /\ Count(f.log, "http_basic.get_cookie_issues") = 1
                          /\ Count(f.log, "_check_charset") = 1
              /\ (f.res.text /\ f.pc = "l49") =>
                    \A c \in MarkupChecks : Count(f.log, c) = 1

C2_Witness ==
    \E i \in AnalyzeFrames("t1") :
        LET f == stack["t1"][i]
        IN  /\ f.pc = "l49"
            /\ f.res # None
            /\ ~f.res.text
            /\ Count(f.log, "_check_charset") = 1
            /\ Count(f.log, "_check_cache_headers") = 0

(***************************************************************************)
(* C3.  No check_response call ends with an error.                         *)
(***************************************************************************)
C3_NeverAborts == \A t \in Threads : status[t] # "raised"

(***************************************************************************)
(* C4.  When check_response reaches its return, its results are the        *)
(* results of its checks one after the other, in the order: (text only)    *)
(* get_results, get_version, check_response of error_checker,              *)
(* _check_cache_headers; get_header_issues, get_cookie_issues; (caller not *)
(* the probe) check_cve_2019_5418; _check_charset.  The findings of        *)
(* _check_charset are the last ones.                                       *)
(***************************************************************************)
ExpectedChecks(text, reentrant) ==
    (IF text THEN <<"retirejs.get_results", "apache_tomcat.get_version",
                    "error_checker.check_response", "_check_cache_headers">>
     ELSE <<>>)
    \o <<"http_basic.get_header_issues", "http_basic.get_cookie_issues">>
    \o (IF reentrant THEN <<>> ELSE <<"rails.check_cve_2019_5418">>)
    \o <<"_check_charset">>

\* C4: at line 49 the checks made are the expected ones in the expected
\* order, results is their results concatenated, _check_charset's are last
C4_FixedOrder ==
    \A t \in Threads : \A i \in AnalyzeFrames(t) :
        LET f == stack[t][i]
            n == Len(f.results)
            last == f.log[Len(f.log)]
        IN  f.pc = "l49" =>
              /\ Checks(f.log) = ExpectedChecks(f.res.text, CalledByProbe(t, i))
              /\ f.results = Concatenated(f.log)
              /\ last.fn = "_check_charset"
              /\ SubSeq(f.results, n - Len(last.ret) + 1, n) = last.ret

\* a text response, every check found something, the charset finding is last
C4_Witness ==
    \E i \in AnalyzeFrames("t1") :
        LET f == stack["t1"][i]
        IN  /\ f.pc = "l49"
            /\ f.res = HtmlResponse
            /\ ~CalledByProbe("t1", i)
            /\ \A k \in DOMAIN f.log :
                  f.log[k].fn \in MarkupChecks \cup {"rails.check_cve_2019_5418"}
                      => f.log[k].ret # <<>>
            /\ f.results[Len(f.results)] = "HTTP_HEADER_CONTENT_TYPE_NO_CHARSET"

(***************************************************************************)
(* C5.  Original: for Cache-Control: public, no-cache, no-store, private,  *)
(* _check_cache_headers returns no cache-control finding.                  *)
(* Amended: it returns exactly one cache-control finding,                  *)
(* HTTP_HEADER_CACHE_CONTROL_PUBLIC.                                       *)
(***************************************************************************)
C5_NoCacheControlFinding ==
    (CacheCalled /\ HasValue(ires, "Cache-Control", FullCacheControl))
        => Only(iout.results, CacheControlKinds) = <<>>

\* C5 as amended: the only cache-control finding is the one for "public"
C5_OnlyPublic ==
    (CacheCalled /\ HasValue(ires, "Cache-Control", FullCacheControl))
        => Only(iout.results, CacheControlKinds) = <<"HTTP_HEADER_CACHE_CONTROL_PUBLIC">>

C5_Witness ==
    /\ CacheCalled
    /\ HasValue(ires, "Cache-Control", FullCacheControl)
    /\ Kinds(iout.results, "HTTP_HEADER_CACHE_CONTROL_PUBLIC") = 1

(***************************************************************************)
(* C6.  Original: for a Content-Type whose lowercased value contains       *)
(* "text/html" and not "charset", _check_charset returns exactly           *)
(* HTTP_HEADER_CONTENT_TYPE_NO_CHARSET.                                    *)
(* Amended: it does when the content is not empty, and returns nothing     *)
(* when the content is empty.                                              *)
(***************************************************************************)
HtmlWithoutCharset(res) ==
    /\ Has(res, "Content-Type")
    /\ \E k \in 1..(Len(res.headers["Content-Type"]) - 8) :
          lower(SubSeq(res.headers["Content-Type"], k, k + 8)) = S_text_html
    /\ \A k \in 1..(Len(res.headers["Content-Type"]) - 6) :
          lower(SubSeq(res.headers["Content-Type"], k, k + 6)) # S_charset

\* C6 as stated: one HTTP_HEADER_CONTENT_TYPE_NO_CHARSET, whatever the body
C6_AlwaysNoCharset ==
    (CharsetCalled /\ HtmlWithoutCharset(ires))
        => iout.results = <<"HTTP_HEADER_CONTENT_TYPE_NO_CHARSET">>

\* C6 as amended: one HTTP_HEADER_CONTENT_TYPE_NO_CHARSET unless the body is
\* empty, and then nothing
C6_NoCharsetUnlessEmpty ==
    (CharsetCalled /\ HtmlWithoutCharset(ires))
        => iout.results = IF ires.content_len = 0 THEN <<>>
                          ELSE <<"HTTP_HEADER_CONTENT_TYPE_NO_CHARSET">>

C6_Witness ==
    /\ CharsetCalled
    /\ HasValue(ires, "Content-Type", <<"Text/HTML">>)
    /\ ires.content_len > 0
    /\ iout.results = <<"HTTP_HEADER_CONTENT_TYPE_NO_CHARSET">>

(***************************************************************************)
(* C7.  Without a Cache-Control header _check_cache_headers returns one    *)
(* HTTP_HEADER_CACHE_CONTROL_MISSING and none of the four findings on the  *)
(* header's value; with the header it never returns                        *)
(* HTTP_HEADER_CACHE_CONTROL_MISSING.                                      *)
(***************************************************************************)
C7_MissingExcludesOthers ==
    CacheCalled =>
        IF Has(ires, "Cache-Control")
        THEN Kinds(iout.results, "HTTP_HEADER_CACHE_CONTROL_MISSING") = 0
        ELSE Only(iout.results, CacheControlKinds) = <<"HTTP_HEADER_CACHE_CONTROL_MISSING">>

C7_Witness ==
    /\ CacheCalled
    /\ ~Has(ires, "Cache-Control")
    /\ Kinds(iout.results, "HTTP_HEADER_CACHE_CONTROL_MISSING") = 1

(***************************************************************************)
(* C9.  _check_cache_headers returns HTTP_HEADER_PRAGMA_NO_CACHE_MISSING,  *)
(* once, exactly when Pragma is absent or its value as sent does not       *)
(* contain "no-cache": Pragma: No-Cache gives the finding, while           *)
(* Cache-Control: No-Cache does not give                                   *)
(* HTTP_HEADER_CACHE_CONTROL_NO_CACHE_MISSING.                             *)
(***************************************************************************)
PragmaSaysNoCache(res) ==
    /\ Has(res, "Pragma")
    /\ \E k \in 1..(Len(res.headers["Pragma"]) - 7) :
          SubSeq(res.headers["Pragma"], k, k + 7) = S_no_cache

\* C9: the Pragma finding is there exactly when the raw value lacks
\* "no-cache"; No-Cache counts for Cache-Control and not for Pragma
C9_PragmaCaseSensitive ==
    CacheCalled =>
        /\ Kinds(iout.results, "HTTP_HEADER_PRAGMA_NO_CACHE_MISSING")
              = IF PragmaSaysNoCache(ires) THEN 0 ELSE 1
        /\ HasValue(ires, "Pragma", <<"No-Cache">>)
              => Kinds(iout.results, "HTTP_HEADER_PRAGMA_NO_CACHE_MISSING") = 1
        /\ HasValue(ires, "Cache-Control", <<"No-Cache">>)
              => Kinds(iout.results, "HTTP_HEADER_CACHE_CONTROL_NO_CACHE_MISSING") = 0

C9_Witness ==
    /\ CacheCalled
    /\ HasValue(ires, "Pragma", <<"No-Cache">>)
    /\ HasValue(ires, "Cache-Control", <<"No-Cache">>)
    /\ Kinds(iout.results, "HTTP_HEADER_PRAGMA_NO_CACHE_MISSING") = 1
    /\ Kinds(iout.results, "HTTP_HEADER_CACHE_CONTROL_NO_CACHE_MISSING") = 0

(***************************************************************************)
(* C8.  With two top-level calls running in two threads, in every          *)
(* interleaving: a call a probe made never reaches line 45 and calls no    *)
(* probe, and a top-level call past the guard calls the probe once,        *)
(* whatever the other thread is doing.                                     *)
(***************************************************************************)
C8_GuardPerThread ==
    \A t \in Threads : \A i \in AnalyzeFrames(t) :
        LET f == stack[t][i]
        IN  /\ f.pc = "l45" => ~Nested(t, i)
            /\ f.pc \in {"l47", "l49"} =>
                  Count(f.log, "rails.check_cve_2019_5418")
                      = IF Nested(t, i) THEN 0 ELSE 1

\* t1 has just decided to call the probe while t2 is inside its own probe,
\* in a nested call that has skipped it
C8_Witness ==
    /\ status["t1"] = "running"
    /\ status["t2"] = "running"
    /\ Top("t1").fn = "check_response"
    /\ Top("t1").pc = "l45"
    /\ ProbeFrames(stack["t1"]) = 0
    /\ ProbeFrames(stack["t2"]) = 1
    /\ Top("t2").fn = "check_response"
    /\ Top("t2").pc = "l47"

(***************************************************************************)
(* C10.  Original: a check_response call whose caller is not named like    *)
(* the probe calls the probe exactly once, one whose caller is calls it    *)
(* never.                                                                  *)
(* Amended: that holds of a call on a response that is not None, once it   *)
(* is past the guard of line 44: the probe call comes right after          *)
(* get_cookie_issues and right before _check_charset, whatever is further  *)
(* up the stack.  A call on None returns at line 20 and calls no probe.    *)
(***************************************************************************)
C10_ProbeUnlessCalledByProbe ==
    \A t \in Threads : \A i \in AnalyzeFrames(t) :
        stack[t][i].pc \in {"l20", "l49"} =>
            Count(stack[t][i].log, "rails.check_cve_2019_5418")
                = IF CalledByProbe(t, i) THEN 0 ELSE 1

\* C10 as amended: past the guard the probe was called once exactly when the
\* immediate caller is not named like the probe; before it, and on None, never
C10_GuardByImmediateCaller ==
    \A t \in Threads : \A i \in AnalyzeFrames(t) :
        LET f == stack[t][i]
            probes == Count(f.log, "rails.check_cve_2019_5418")
            checks == Checks(f.log)
            n == Len(checks)
        IN  /\ f.pc = "l45" => ~CalledByProbe(t, i)
            /\ f.pc \in {"l47", "l49"} =>
                  probes = IF CalledByProbe(t, i) THEN 0 ELSE 1
            /\ f.pc \notin {"l47", "l49"} => probes = 0
            /\ (f.pc = "l49" /\ ~CalledByProbe(t, i)) =>
                  /\ checks[n] = "_check_charset"
                  /\ checks[n - 1] = "rails.check_cve_2019_5418"
                  /\ checks[n - 2] = "http_basic.get_cookie_issues"
            /\ f.pc = "l20" => f.res = None

\* a call whose caller is not the probe, with the probe further up the
\* stack, has called the probe
C10_Witness ==
    /\ status["t1"] = "running"
    /\ stack["t1"][1].fn = "check_cve_2019_5418"
    /\ stack["t1"][2].fn = "check_url"
    /\ Len(stack["t1"]) = 3
    /\ stack["t1"][3].pc = "l49"
    /\ Count(stack["t1"][3].log, "rails.check_cve_2019_5418") = 1

=============================================================================
